---------------------------- MODULE Spec2Model ----------------------------
(***************************************************************************)
(* Model of notion-server/src/ethereum/mod.rs: the Simulation ledger (a    *)
(* beacon chain registering execution environments and a list of shard     *)
(* chains of blocks), the Handle that owns it, the actor loop Handle::run  *)
(* and the client methods that talk to the loop over tokio mpsc channels.  *)
(*                                                                         *)
(* Ledger.  Every Simulation method is an operator from the ledger and the *)
(* arguments to the ledger after the call and the value returned.  Byte    *)
(* strings are sequences of 0..255.  Base64 text is a sequence of symbol   *)
(* values: 0..63 are the alphabet characters in alphabet order, Pad is '=' *)
(* and any other value is a character outside the alphabet; encode and     *)
(* decode are computed on the bits.                                        *)
(*                                                                         *)
(* Actor.  Handle::run steps from one await point to the next: ActorRecv   *)
(* is receiver.recv() returning and the match arm running the ledger       *)
(* method, ActorSend is reply.send(res) completing.  A client method steps *)
(* likewise: Call (the reply channel is created), ClientSend and           *)
(* ClientRecv.  The body of a client method uses only self.sender, so a    *)
(* caller is a task holding a clone of the request sender; the Handle      *)
(* keeps its own sender for as long as run runs.  Shutdown is the run      *)
(* future being dropped, which drops the Handle and all it holds.          *)
(*                                                                         *)
(* Specifications.  Spec: the running actor and two concurrent callers.    *)
(* SpecQueue: the same over fewer operations and more calls.               *)
(* FairSpecAbandon: the running actor and callers that may abandon a call   *)
(* while it awaits its reply, under the same weak fairness as FairSpec.     *)
(* FairSpec: the same with Shutdown and callers dropping their senders,    *)
(* under weak fairness of the steps the runtime polls.  SpecLedger: the    *)
(* Simulation methods called directly over richer arguments.               *)
(* SpecRoundTrip: the same with every call logged.  SpecLog: longer logged  *)
(* runs of calls over two shard chains.                                    *)
(***************************************************************************)
EXTENDS Integers, Sequences, FiniteSets, TLC

\* ------------------------------------------------------------------ bounds

\* Number of calls issued in one behaviour of Spec and of SpecRoundTrip.
MaxCalls == 3
\* Number of calls issued in one behaviour of FairSpec.
MaxShutdownCalls == 2
\* Caps of the ledger's collections in SpecLedger.
MaxEEs == 2
MaxChains == 2
MaxBlocks == 1
\* Longest byte string whose encoding is registered in SpecRoundTrip.
MaxLen == 2
\* Number of calls issued in one behaviour of SpecLog.
MaxLogCalls == 5
\* Number of calls issued in one behaviour of SpecQueue.
MaxQueueCalls == 4
\* Number of calls issued in one behaviour of FairSpecAbandon.
MaxAbandonCalls == 2

\* ------------------------------------------------------------------ base64

\* The padding character '=' (one past the 64 alphabet symbols).
Pad == 64
\* A character that is not in the base64 alphabet, e.g. '!'.
NonAlphabet == 65

RECURSIVE Base64Encode(_)
\* base64::encode with the standard alphabet and padding: 3 bytes -> 4 symbols.
Base64Encode(bytes) ==
  IF Len(bytes) = 0 THEN << >>
  ELSE IF Len(bytes) = 1 THEN
    << bytes[1] \div 4, (bytes[1] % 4) * 16, Pad, Pad >>
  ELSE IF Len(bytes) = 2 THEN
    << bytes[1] \div 4,
       (bytes[1] % 4) * 16 + bytes[2] \div 16,
       (bytes[2] % 16) * 4,
       Pad >>
  ELSE
    << bytes[1] \div 4,
       (bytes[1] % 4) * 16 + bytes[2] \div 16,
       (bytes[2] % 16) * 4 + bytes[3] \div 64,
       bytes[3] % 64 >>
    \o Base64Encode(SubSeq(bytes, 4, Len(bytes)))

\* Number of symbols of text before its first padding character.
Base64DataLen(text) ==
  IF \E i \in 1..Len(text) : text[i] = Pad
  THEN (CHOOSE i \in 1..Len(text) :
          text[i] = Pad /\ \A j \in 1..(i - 1) : text[j] # Pad) - 1
  ELSE Len(text)

RECURSIVE Base64Bytes(_)
\* The bytes carried by a run of alphabet symbols (4 symbols -> 3 bytes;
\* a last group of 2 or 3 symbols -> 1 or 2 bytes).
Base64Bytes(syms) ==
  IF Len(syms) < 2 THEN << >>
  ELSE IF Len(syms) = 2 THEN
    << syms[1] * 4 + syms[2] \div 16 >>
  ELSE IF Len(syms) = 3 THEN
    << syms[1] * 4 + syms[2] \div 16,
       (syms[2] % 16) * 16 + syms[3] \div 4 >>
  ELSE
    << syms[1] * 4 + syms[2] \div 16,
       (syms[2] % 16) * 16 + syms[3] \div 4,
       (syms[3] % 4) * 64 + syms[4] >>
    \o Base64Bytes(SubSeq(syms, 5, Len(syms)))

\* base64::decode with the standard configuration.  It fails on a character
\* outside the alphabet, on padding that is not at the end or that starts in
\* the first half of a group of four, on a symbol count of 1 modulo 4, and on
\* a last symbol carrying bits that belong to no byte.  Missing padding is
\* accepted.
Base64Decode(text) ==
  LET m == Base64DataLen(text)
      syms == SubSeq(text, 1, m)
      invalidByte == \E i \in 1..m : text[i] \notin 0..63
      badPadding ==
        \/ \E i \in (m + 1)..Len(text) : text[i] # Pad
        \/ \E i \in (m + 1)..Len(text) : (i - 1) % 4 < 2
      invalidLength == m % 4 = 1
      invalidLastSymbol ==
        \/ m % 4 = 2 /\ syms[m] % 16 # 0
        \/ m % 4 = 3 /\ syms[m] % 4 # 0
  IN IF invalidByte \/ badPadding \/ invalidLength THEN [ok |-> FALSE, bytes |-> << >>]
     ELSE IF invalidLastSymbol THEN [ok |-> FALSE, bytes |-> << >>]
     ELSE [ok |-> TRUE, bytes |-> Base64Bytes(syms)]

\* ------------------------------------------------------------------ results

\* Every value a method returns is a record, so that any two of them can be
\* compared: a u32 is [u32 |-> n].
U32(n) == [u32 |-> n]

\* Result<V, Error>: Ok(v) and the three Error variants.
Ok(v) == [tag |-> "Ok", val |-> v]
ErrDecode == [tag |-> "Decode", val |-> [source |-> "base64::DecodeError"]]
ErrOutOfBounds(message) == [tag |-> "OutOfBounds", val |-> [message |-> message]]
ErrTerminated == [tag |-> "Terminated", val |-> [message |-> "Terminated"]]

\* What a call that was abandoned leaves its caller with: no value at all.
NoResult == [tag |-> "None", val |-> [message |-> "abandoned"]]

\* ------------------------------------------------------------------ ledger

\* BeaconChain::new, ShardChain::new and Simulation::new.
BeaconChainNew == [execution_environments |-> << >>]
ShardChainNew == [execution_environment_state |-> << >>, shard_blocks |-> << >>]
SimulationNew == [beacon_chain |-> BeaconChainNew, shard_chains |-> << >>]

\* The same storing the text as it came, undecoded.
TryFromExecutionEnvironment_keeps_text(ee_args) ==
  LET d == Base64Decode(ee_args.base64_encoded_wasm_code)
  IN IF d.ok THEN Ok([wasm_code |-> ee_args.base64_encoded_wasm_code])
     ELSE ErrDecode

\* TryFrom<args::ExecutionEnvironment> for ExecutionEnvironment.
TryFromExecutionEnvironment(ee_args) ==
  LET d == Base64Decode(ee_args.base64_encoded_wasm_code)
  IN IF d.ok THEN Ok([wasm_code |-> d.bytes]) ELSE ErrDecode

\* From<&ExecutionEnvironment> for args::ExecutionEnvironment.
FromExecutionEnvironment(ee) ==
  [base64_encoded_wasm_code |-> Base64Encode(ee.wasm_code)]

\* TryFrom<&args::ShardTransaction> for ShardTransaction.
TryFromShardTransaction(sbt_args) ==
  LET d == Base64Decode(sbt_args.base64_encoded_data)
  IN IF d.ok THEN Ok([data |-> d.bytes, ee_index |-> sbt_args.ee_index])
     ELSE ErrDecode

\* The same leaving ee_index at the Default of args::ShardTransaction.
FromShardTransaction_default_ee_index(st) ==
  [base64_encoded_data |-> Base64Encode(st.data), ee_index |-> 0]

\* From<&ShardTransaction> for args::ShardTransaction.
FromShardTransaction(st) ==
  [base64_encoded_data |-> Base64Encode(st.data), ee_index |-> st.ee_index]

RECURSIVE CollectTransactions(_)
\* The iterator of try_from results collected into one Result: the first
\* Err ends the collection, otherwise the decoded transactions in order.
CollectTransactions(txs) ==
  IF Len(txs) = 0 THEN Ok(<< >>)
  ELSE LET first == TryFromShardTransaction(Head(txs))
       IN IF first.tag # "Ok" THEN first
          ELSE LET rest == CollectTransactions(Tail(txs))
               IN IF rest.tag # "Ok" THEN rest
                  ELSE Ok(<< first.val >> \o rest.val)

\* TryFrom<args::ShardBlock> for ShardBlock.
TryFromShardBlock(sb_args) ==
  LET transactions == CollectTransactions(sb_args.transactions)
  IN IF transactions.tag # "Ok" THEN transactions
     ELSE Ok([transactions |-> transactions.val])

\* From<&ShardBlock> for args::ShardBlock.
FromShardBlock(sb) ==
  [transactions |->
     [i \in 1..Len(sb.transactions) |-> FromShardTransaction(sb.transactions[i])]]

\* Every ledger method below yields [sim |-> the ledger after the call,
\* res |-> the value returned].  Indices are zero-based as in the source;
\* position i of a Vec is element i + 1 of the sequence.

\* The same returning the length after the push (one too many).
add_execution_environment_returns_len(beacon_chain, execution_environment) ==
  LET pushed == Append(beacon_chain.execution_environments, execution_environment)
  IN [chain |-> [beacon_chain EXCEPT !.execution_environments = pushed],
      index |-> Len(pushed)]

\* The same inserting the environment at the front of the Vec.
add_execution_environment_at_front(beacon_chain, execution_environment) ==
  LET pushed == << execution_environment >> \o beacon_chain.execution_environments
  IN [chain |-> [beacon_chain EXCEPT !.execution_environments = pushed],
      index |-> Len(pushed) - 1]

\* BeaconChain::add_execution_environment: push, then len - 1.
add_execution_environment(beacon_chain, execution_environment) ==
  LET pushed == Append(beacon_chain.execution_environments, execution_environment)
  IN [chain |-> [beacon_chain EXCEPT !.execution_environments = pushed],
      index |-> Len(pushed) - 1]

\* The same with the two counts taken from each other's collection.
simulation_state_swapped(sim, args) ==
  [sim |-> sim,
   res |-> [num_execution_environments |-> Len(sim.shard_chains),
            num_shard_chains |-> Len(sim.beacon_chain.execution_environments)]]

\* The same counting only the shard chains that hold a block.
simulation_state_skips_empty_chains(sim, args) ==
  [sim |-> sim,
   res |-> [num_execution_environments |-> Len(sim.beacon_chain.execution_environments),
            num_shard_chains |->
              Cardinality({ s \in 1..Len(sim.shard_chains) :
                              sim.shard_chains[s].shard_blocks # << >> })]]

\* Simulation::simulation_state.
simulation_state(sim, args) ==
  [sim |-> sim,
   res |-> [num_execution_environments |-> Len(sim.beacon_chain.execution_environments),
            num_shard_chains |-> Len(sim.shard_chains)]]

\* Simulation::create_execution_environment.
create_execution_environment(sim, args) ==
  LET execution_environment == TryFromExecutionEnvironment(args.execution_environment)
  IN IF execution_environment.tag # "Ok"
     THEN [sim |-> sim, res |-> execution_environment]
     ELSE LET added == add_execution_environment(sim.beacon_chain,
                                                 execution_environment.val)
          IN [sim |-> [sim EXCEPT !.beacon_chain = added.chain],
              res |-> Ok(U32(added.index))]

\* The same with the bound test off by one: the last index is refused.
get_execution_environment_refuses_last(sim, args) ==
  LET ees == sim.beacon_chain.execution_environments
      i == args.execution_environment_index
  IN IF i + 1 < Len(ees)
     THEN [sim |-> sim, res |-> Ok(FromExecutionEnvironment(ees[i + 1]))]
     ELSE [sim |-> sim, res |-> ErrOutOfBounds("No execution environment exists at index")]

\* Simulation::get_execution_environment.
get_execution_environment(sim, args) ==
  LET ees == sim.beacon_chain.execution_environments
      i == args.execution_environment_index
  IN IF i < Len(ees)
     THEN [sim |-> sim, res |-> Ok(FromExecutionEnvironment(ees[i + 1]))]
     ELSE [sim |-> sim, res |-> ErrOutOfBounds("No execution environment exists at index")]

\* The same returning the number of shard chains after the push.
create_shard_chain_returns_len(sim, args) ==
  LET pushed == Append(sim.shard_chains, ShardChainNew)
  IN [sim |-> [sim EXCEPT !.shard_chains = pushed], res |-> U32(Len(pushed))]

\* Simulation::create_shard_chain.
create_shard_chain(sim, args) ==
  LET pushed == Append(sim.shard_chains, ShardChainNew)
  IN [sim |-> [sim EXCEPT !.shard_chains = pushed], res |-> U32(Len(pushed) - 1)]

RECURSIVE DecodedPrefix(_)
\* The transactions that decode before the first one that does not.
DecodedPrefix(txs) ==
  IF Len(txs) = 0 THEN << >>
  ELSE LET first == TryFromShardTransaction(Head(txs))
       IN IF first.tag # "Ok" THEN << >>
          ELSE << first.val >> \o DecodedPrefix(Tail(txs))

\* The same building the block in place (ShardBlock::new pushed first, then
\* add_transaction for each decoded transaction): a decode failure leaves
\* the transactions before it appended.
create_shard_block_in_place(sim, args) ==
  LET s == args.shard_chain_index
  IN IF s < Len(sim.shard_chains)
     THEN LET shard_block == TryFromShardBlock(args.shard_block)
              partial == [transactions |-> DecodedPrefix(args.shard_block.transactions)]
              pushed == Append(sim.shard_chains[s + 1].shard_blocks,
                               IF shard_block.tag = "Ok" THEN shard_block.val
                               ELSE partial)
          IN [sim |-> [sim EXCEPT !.shard_chains[s + 1].shard_blocks = pushed],
              res |-> IF shard_block.tag = "Ok" THEN Ok(U32(Len(pushed) - 1))
                      ELSE shard_block]
     ELSE [sim |-> sim, res |-> ErrOutOfBounds("No shard chain exists at index")]

\* The same decoding the block before looking the shard chain up.
create_shard_block_decodes_first(sim, args) ==
  LET s == args.shard_chain_index
      shard_block == TryFromShardBlock(args.shard_block)
  IN IF shard_block.tag # "Ok"
     THEN [sim |-> sim, res |-> shard_block]
     ELSE IF s < Len(sim.shard_chains)
     THEN LET pushed == Append(sim.shard_chains[s + 1].shard_blocks,
                               shard_block.val)
          IN [sim |-> [sim EXCEPT !.shard_chains[s + 1].shard_blocks = pushed],
              res |-> Ok(U32(Len(pushed) - 1))]
     ELSE [sim |-> sim, res |-> ErrOutOfBounds("No shard chain exists at index")]

\* The same returning the block's position among the blocks of all shard
\* chains (one index space for the whole ledger).
create_shard_block_global_index(sim, args) ==
  LET s == args.shard_chain_index
  IN IF s < Len(sim.shard_chains)
     THEN LET shard_block == TryFromShardBlock(args.shard_block)
          IN IF shard_block.tag # "Ok"
             THEN [sim |-> sim, res |-> shard_block]
             ELSE LET pushed == Append(sim.shard_chains[s + 1].shard_blocks,
                                       shard_block.val)
                      before == UNION { { << t, b >> :
                                            b \in 1..Len(sim.shard_chains[t].shard_blocks) } :
                                        t \in 1..Len(sim.shard_chains) }
                  IN [sim |-> [sim EXCEPT !.shard_chains[s + 1].shard_blocks = pushed],
                      res |-> Ok(U32(Cardinality(before)))]
     ELSE [sim |-> sim, res |-> ErrOutOfBounds("No shard chain exists at index")]

\* The same refusing a block with a transaction whose ee_index names no
\* registered execution environment.
create_shard_block_checks_ee_index(sim, args) ==
  LET s == args.shard_chain_index
  IN IF s < Len(sim.shard_chains)
     THEN LET shard_block == TryFromShardBlock(args.shard_block)
          IN IF shard_block.tag # "Ok"
             THEN [sim |-> sim, res |-> shard_block]
             ELSE IF \E i \in 1..Len(shard_block.val.transactions) :
                       shard_block.val.transactions[i].ee_index >=
                         Len(sim.beacon_chain.execution_environments)
             THEN [sim |-> sim,
                   res |-> ErrOutOfBounds("No execution environment exists at index")]
             ELSE LET pushed == Append(sim.shard_chains[s + 1].shard_blocks,
                                       shard_block.val)
                  IN [sim |-> [sim EXCEPT !.shard_chains[s + 1].shard_blocks = pushed],
                      res |-> Ok(U32(Len(pushed) - 1))]
     ELSE [sim |-> sim, res |-> ErrOutOfBounds("No shard chain exists at index")]

\* The same pushing the block onto every shard chain of the ledger.
create_shard_block_on_every_chain(sim, args) ==
  LET s == args.shard_chain_index
  IN IF s < Len(sim.shard_chains)
     THEN LET shard_block == TryFromShardBlock(args.shard_block)
          IN IF shard_block.tag # "Ok"
             THEN [sim |-> sim, res |-> shard_block]
             ELSE LET pushed == Append(sim.shard_chains[s + 1].shard_blocks,
                                       shard_block.val)
                  IN [sim |-> [sim EXCEPT !.shard_chains =
                                 [t \in 1..Len(sim.shard_chains) |->
                                    [sim.shard_chains[t] EXCEPT !.shard_blocks =
                                       Append(@, shard_block.val)]]],
                      res |-> Ok(U32(Len(pushed) - 1))]
     ELSE [sim |-> sim, res |-> ErrOutOfBounds("No shard chain exists at index")]

\* Simulation::create_shard_block.
create_shard_block(sim, args) ==
  LET s == args.shard_chain_index
  IN IF s < Len(sim.shard_chains)
     THEN LET shard_block == TryFromShardBlock(args.shard_block)
          IN IF shard_block.tag # "Ok"
             THEN [sim |-> sim, res |-> shard_block]
             ELSE LET pushed == Append(sim.shard_chains[s + 1].shard_blocks,
                                       shard_block.val)
                  IN [sim |-> [sim EXCEPT !.shard_chains[s + 1].shard_blocks = pushed],
                      res |-> Ok(U32(Len(pushed) - 1))]
     ELSE [sim |-> sim, res |-> ErrOutOfBounds("No shard chain exists at index")]

\* The same reporting a missing shard chain for either index out of range.
get_shard_block_one_message(sim, args) ==
  LET s == args.shard_chain_index
      b == args.shard_block_index
  IN IF s < Len(sim.shard_chains) /\ b < Len(sim.shard_chains[s + 1].shard_blocks)
     THEN [sim |-> sim,
           res |-> Ok(FromShardBlock(sim.shard_chains[s + 1].shard_blocks[b + 1]))]
     ELSE [sim |-> sim, res |-> ErrOutOfBounds("no shard chain exists at index")]

\* The same taking the block out of the shard chain (Vec::remove) instead
\* of borrowing it.
get_shard_block_takes_block(sim, args) ==
  LET s == args.shard_chain_index
      b == args.shard_block_index
  IN IF s < Len(sim.shard_chains)
     THEN IF b < Len(sim.shard_chains[s + 1].shard_blocks)
          THEN LET blocks == sim.shard_chains[s + 1].shard_blocks
               IN [sim |-> [sim EXCEPT !.shard_chains[s + 1].shard_blocks =
                              SubSeq(blocks, 1, b) \o SubSeq(blocks, b + 2, Len(blocks))],
                   res |-> Ok(FromShardBlock(blocks[b + 1]))]
          ELSE [sim |-> sim,
                res |-> ErrOutOfBounds("the shard chain does not contain a block at index")]
     ELSE [sim |-> sim, res |-> ErrOutOfBounds("no shard chain exists at index")]

\* Simulation::get_shard_block.
get_shard_block(sim, args) ==
  LET s == args.shard_chain_index
      b == args.shard_block_index
  IN IF s < Len(sim.shard_chains)
     THEN IF b < Len(sim.shard_chains[s + 1].shard_blocks)
          THEN [sim |-> sim,
                res |-> Ok(FromShardBlock(sim.shard_chains[s + 1].shard_blocks[b + 1]))]
          ELSE [sim |-> sim,
                res |-> ErrOutOfBounds("the shard chain does not contain a block at index")]
     ELSE [sim |-> sim, res |-> ErrOutOfBounds("no shard chain exists at index")]


\* The match of Handle::run: the ledger method each Operation variant calls.
run_match(sim, op) ==
  CASE op.kind = "CreateExecutionEnvironment" -> create_execution_environment(sim, op.args)
    [] op.kind = "CreateShardBlock" -> create_shard_block(sim, op.args)
    [] op.kind = "CreateShardChain" -> create_shard_chain(sim, op.args)
    [] op.kind = "GetExecutionEnvironment" -> get_execution_environment(sim, op.args)
    [] op.kind = "GetShardBlock" -> get_shard_block(sim, op.args)
    [] op.kind = "GetSimulationState" -> simulation_state(sim, op.args)

\* ------------------------------------------------------------------ state

VARIABLES
  simulation,  \* Handle.simulation: the ledger the actor owns
  channel,     \* the request channel of Handle::new: [buffer, rx_alive]
  senders,     \* owners of a live Sender<Operation>: HandleSender and callers
  actorPc,     \* where Handle::run is: "recv", "send" or "dropped"
  inHand,      \* the request run has received and applied: << >> or <<[id, res]>>
  replies,     \* per call id, its reply channel: [buffer, tx_alive, rx_alive]
  pc,          \* per caller: "idle", "send", "recv" or "gone"
  callId,      \* per caller: the id of its current (or last) call
  result,      \* per caller: what its last call returned
  calls,       \* history: every call issued, by id: [caller, op, terminated]
  accepted,    \* history: ids in the order the request channel accepted them
  applied,     \* history: [id, res] in the order run applied them
  last         \* history: the latest ledger call: [op, before, res]

vars == << simulation, channel, senders, actorPc, inHand, replies, pc, callId,
           result, calls, accepted, applied, last >>

\* Two tasks call the client methods concurrently, each through its own
\* clone of the request sender.
Callers == {1, 2}

\* The owner id of Handle.sender, the sender the Handle itself keeps.
HandleSender == 0

\* channel(1) of Handle::new: the request channel buffers one Operation.
RequestCapacity == 1

\* channel(1) of every client method: a reply channel buffers one value.
ReplyCapacity == 1

\* ------------------------------------------------------------------ inputs

\* "YQ==" (the byte 'a'), "YQ" (the same, unpadded), "aGkh" ("hi!"),
\* "Y" (malformed: one symbol) and "YQ!=" (malformed: not in the alphabet).
TextA == << 24, 16, Pad, Pad >>
TextAUnpadded == << 24, 16 >>
TextHi == << 26, 6, 36, 33 >>
TextMalformed == << 24 >>
TextNonAlphabet == << 24, 16, NonAlphabet, Pad >>

Transaction(text, ee) == [base64_encoded_data |-> text, ee_index |-> ee]
Block(txs) == [transactions |-> txs]

OpCreateExecutionEnvironment(text) ==
  [kind |-> "CreateExecutionEnvironment",
   args |-> [execution_environment |-> [base64_encoded_wasm_code |-> text]]]
OpGetExecutionEnvironment(i) ==
  [kind |-> "GetExecutionEnvironment", args |-> [execution_environment_index |-> i]]
OpCreateShardChain == [kind |-> "CreateShardChain", args |-> [none |-> 0]]
OpCreateShardBlock(s, block) ==
  [kind |-> "CreateShardBlock", args |-> [shard_chain_index |-> s, shard_block |-> block]]
OpGetShardBlock(s, b) ==
  [kind |-> "GetShardBlock", args |-> [shard_chain_index |-> s, shard_block_index |-> b]]
OpGetSimulationState == [kind |-> "GetSimulationState", args |-> [none |-> 0]]

\* The operations callers submit in Spec: one of each kind, and a
\* registration that fails to decode.
CallOps ==
  { OpCreateExecutionEnvironment(TextA),
    OpCreateExecutionEnvironment(TextMalformed),
    OpGetExecutionEnvironment(0),
    OpCreateShardChain,
    OpCreateShardBlock(0, Block(<< Transaction(TextA, 0) >>)),
    OpGetShardBlock(0, 0),
    OpGetSimulationState }

\* The operations callers submit in FairSpec.
ShutdownOps ==
  { OpCreateExecutionEnvironment(TextA), OpGetExecutionEnvironment(0) }

NoOp == [kind |-> "None", args |-> [none |-> 0]]

\* ------------------------------------------------------------------ Init

\* Handle::new(Simulation::new()), the callers holding clones of its sender.
Init ==
  /\ simulation = SimulationNew
  /\ channel = [buffer |-> << >>, rx_alive |-> TRUE]
  /\ senders = {HandleSender} \cup Callers
  /\ actorPc = "recv"
  /\ inHand = << >>
  /\ replies = << >>
  /\ pc = [c \in Callers |-> "idle"]
  /\ callId = [c \in Callers |-> 0]
  /\ result = [c \in Callers |-> ErrTerminated]
  /\ calls = << >>
  /\ accepted = << >>
  /\ applied = << >>
  /\ last = [op |-> NoOp, before |-> SimulationNew, res |-> U32(0)]

\* ------------------------------------------------------------------ client

\* Dropping the Operations `ids` drops the reply senders they carry.
DropOperations(chans, ids) ==
  [i \in 1..Len(chans) |->
     IF i \in ids THEN [chans[i] EXCEPT !.tx_alive = FALSE] ELSE chans[i]]

\* A client method is entered: `let (sender, mut receiver) = channel(1)` and
\* the Operation is built; the call is about to send on self.sender.
Call(c, o) ==
  /\ pc[c] = "idle"
  /\ calls' = Append(calls, [caller |-> c, op |-> o,
                              terminated |-> actorPc = "dropped"])
  /\ replies' = Append(replies, [buffer |-> << >>, tx_alive |-> TRUE, rx_alive |-> TRUE])
  /\ callId' = [callId EXCEPT ![c] = Len(calls) + 1]
  /\ pc' = [pc EXCEPT ![c] = "send"]
  /\ UNCHANGED << simulation, channel, senders, actorPc, inHand, result,
                  accepted, applied, last >>

\* The same with the Operation of a failed send kept alive instead of
\* dropped: its reply sender stays open.
ClientSend_keeps_failed_op(c) ==
  /\ pc[c] = "send"
  /\ \/ ~channel.rx_alive
     \/ Len(channel.buffer) < RequestCapacity
  /\ IF channel.rx_alive
     THEN /\ channel' = [channel EXCEPT !.buffer = Append(@, callId[c])]
          /\ accepted' = Append(accepted, callId[c])
          /\ UNCHANGED replies
     ELSE UNCHANGED << replies, channel, accepted >>
  /\ pc' = [pc EXCEPT ![c] = "recv"]
  /\ UNCHANGED << simulation, senders, actorPc, inHand, callId, result,
                  calls, applied, last >>

\* The same completing the send whether or not a slot is free.
ClientSend_ignores_capacity(c) ==
  /\ pc[c] = "send"
  /\ IF channel.rx_alive
     THEN /\ channel' = [channel EXCEPT !.buffer = Append(@, callId[c])]
          /\ accepted' = Append(accepted, callId[c])
          /\ UNCHANGED replies
     ELSE /\ replies' = DropOperations(replies, {callId[c]})
          /\ UNCHANGED << channel, accepted >>
  /\ pc' = [pc EXCEPT ![c] = "recv"]
  /\ UNCHANGED << simulation, senders, actorPc, inHand, callId, result,
                  calls, applied, last >>

\* `self.sender.send(op).await;` completes: the Operation enters the buffer
\* when the receiver is alive and a slot is free; when the receiver is gone
\* the send fails, its error is discarded and the Operation is dropped.  With
\* the buffer full and the receiver alive the call stays suspended.
ClientSend(c) ==
  /\ pc[c] = "send"
  /\ \/ ~channel.rx_alive
     \/ Len(channel.buffer) < RequestCapacity
  /\ IF channel.rx_alive
     THEN /\ channel' = [channel EXCEPT !.buffer = Append(@, callId[c])]
          /\ accepted' = Append(accepted, callId[c])
          /\ UNCHANGED replies
     ELSE /\ replies' = DropOperations(replies, {callId[c]})
          /\ UNCHANGED << channel, accepted >>
  /\ pc' = [pc EXCEPT ![c] = "recv"]
  /\ UNCHANGED << simulation, senders, actorPc, inHand, callId, result,
                  calls, applied, last >>

\* `receiver.recv().await.context(Terminated)` completes: Some(value) when a
\* reply is buffered, None (hence Terminated) when the reply sender is gone
\* and nothing is buffered; otherwise the call stays suspended.  Returning
\* drops the reply receiver.
ClientRecv(c) ==
  LET chan == replies[callId[c]]
  IN /\ pc[c] = "recv"
     /\ \/ chan.buffer # << >>
        \/ ~chan.tx_alive
     /\ result' = [result EXCEPT ![c] =
                     IF chan.buffer # << >> THEN Ok(Head(chan.buffer))
                     ELSE ErrTerminated]
     /\ replies' = [replies EXCEPT ![callId[c]] =
                      [buffer |-> << >>, tx_alive |-> chan.tx_alive, rx_alive |-> FALSE]]
     /\ pc' = [pc EXCEPT ![c] = "idle"]
     /\ UNCHANGED << simulation, channel, senders, actorPc, inHand, callId,
                     calls, accepted, applied, last >>

\* The future of a client method is dropped while it awaits its reply (the
\* caller is cancelled or timed out by its own task): the reply receiver is
\* dropped with whatever it holds, and the call returns nothing.
Abandon(c) ==
  /\ pc[c] = "recv"
  /\ replies' = [replies EXCEPT ![callId[c]] =
                   [buffer |-> << >>, tx_alive |-> @.tx_alive, rx_alive |-> FALSE]]
  /\ result' = [result EXCEPT ![c] = NoResult]
  /\ pc' = [pc EXCEPT ![c] = "idle"]
  /\ UNCHANGED << simulation, channel, senders, actorPc, inHand, callId,
                  calls, accepted, applied, last >>

\* A caller that is between calls drops its sender and makes no more calls.
ClientDrop(c) ==
  /\ pc[c] = "idle"
  /\ pc' = [pc EXCEPT ![c] = "gone"]
  /\ senders' = senders \ {c}
  /\ UNCHANGED << simulation, channel, actorPc, inHand, replies, callId,
                  result, calls, accepted, applied, last >>

\* ------------------------------------------------------------------ actor

\* The same with the receiver closed but the Operations it holds, and the
\* one in hand, leaked instead of dropped.
HandleDropped_leaks_operations ==
  /\ actorPc' = "dropped"
  /\ channel' = [buffer |-> << >>, rx_alive |-> FALSE]
  /\ senders' = senders \ {HandleSender}
  /\ replies' = replies
  /\ inHand' = << >>

\* The run future (and the Handle it owns) is dropped: the receiver closes
\* and the buffered Operations are dropped with it, as is the Operation in
\* hand and the Handle's own sender.
HandleDropped ==
  /\ actorPc' = "dropped"
  /\ channel' = [buffer |-> << >>, rx_alive |-> FALSE]
  /\ senders' = senders \ {HandleSender}
  /\ replies' = DropOperations(replies,
                   { channel.buffer[i] : i \in 1..Len(channel.buffer) }
                     \cup { inHand[i].id : i \in 1..Len(inHand) })
  /\ inHand' = << >>

\* The same with the method run on a copy of the ledger: the result is
\* replied but the ledger the Handle owns keeps its old state.
ActorRecv_on_copy ==
  /\ actorPc = "recv"
  /\ \/ channel.buffer # << >>
     \/ senders = {}
  /\ IF channel.buffer # << >>
     THEN LET id == Head(channel.buffer)
              r == run_match(simulation, calls[id].op)
          IN /\ channel' = [channel EXCEPT !.buffer = Tail(@)]
             /\ simulation' = simulation
             /\ inHand' = << [id |-> id, res |-> r.res] >>
             /\ applied' = Append(applied, [id |-> id, res |-> r.res])
             /\ last' = [op |-> calls[id].op, before |-> simulation, res |-> r.res]
             /\ actorPc' = "send"
             /\ UNCHANGED << senders, replies >>
     ELSE /\ HandleDropped
          /\ UNCHANGED << simulation, applied, last >>
  /\ UNCHANGED << pc, callId, result, calls, accepted >>

\* The same treating an Err result as fatal: the loop ends without replying
\* and the Handle is dropped.
ActorRecv_stops_on_error ==
  /\ actorPc = "recv"
  /\ \/ channel.buffer # << >>
     \/ senders = {}
  /\ IF channel.buffer # << >>
     THEN LET id == Head(channel.buffer)
              r == run_match(simulation, calls[id].op)
              fatal == "tag" \in DOMAIN r.res /\ r.res.tag # "Ok"
          IN /\ simulation' = r.sim
             /\ applied' = Append(applied, [id |-> id, res |-> r.res])
             /\ last' = [op |-> calls[id].op, before |-> simulation, res |-> r.res]
             /\ IF fatal
                THEN /\ actorPc' = "dropped"
                     /\ channel' = [buffer |-> << >>, rx_alive |-> FALSE]
                     /\ senders' = senders \ {HandleSender}
                     /\ replies' = DropOperations(replies,
                                      { channel.buffer[i] : i \in 1..Len(channel.buffer) })
                     /\ inHand' = << >>
                ELSE /\ channel' = [channel EXCEPT !.buffer = Tail(@)]
                     /\ inHand' = << [id |-> id, res |-> r.res] >>
                     /\ actorPc' = "send"
                     /\ UNCHANGED << senders, replies >>
     ELSE /\ HandleDropped
          /\ UNCHANGED << simulation, applied, last >>
  /\ UNCHANGED << pc, callId, result, calls, accepted >>

\* `while let Some(op) = self.receiver.recv().await` returns: with Some(op)
\* the match runs the ledger method, up to the await of reply.send(res);
\* with None (buffer empty and every sender gone) the loop ends, run
\* returns Ok(()) and the Handle is dropped.
ActorRecv ==
  /\ actorPc = "recv"
  /\ \/ channel.buffer # << >>
     \/ senders = {}
  /\ IF channel.buffer # << >>
     THEN LET id == Head(channel.buffer)
              r == run_match(simulation, calls[id].op)
          IN /\ channel' = [channel EXCEPT !.buffer = Tail(@)]
             /\ simulation' = r.sim
             /\ inHand' = << [id |-> id, res |-> r.res] >>
             /\ applied' = Append(applied, [id |-> id, res |-> r.res])
             /\ last' = [op |-> calls[id].op, before |-> simulation, res |-> r.res]
             /\ actorPc' = "send"
             /\ UNCHANGED << senders, replies >>
     ELSE /\ HandleDropped
          /\ UNCHANGED << simulation, applied, last >>
  /\ UNCHANGED << pc, callId, result, calls, accepted >>

\* The same sending into the reply channel created last, whichever request
\* it belongs to, instead of the one the request in hand carries.
ActorSend_to_latest_channel ==
  /\ actorPc = "send"
  /\ LET id == inHand[1].id
         to == Len(replies)
         sent == [replies EXCEPT ![to] =
                    [buffer |-> IF @.rx_alive THEN << inHand[1].res >> ELSE << >>,
                     tx_alive |-> @.tx_alive,
                     rx_alive |-> @.rx_alive]]
     IN replies' = [sent EXCEPT ![id].tx_alive = FALSE]
  /\ inHand' = << >>
  /\ actorPc' = "recv"
  /\ UNCHANGED << simulation, channel, senders, pc, callId, result, calls,
                  accepted, applied, last >>

\* The same waiting for the receiver to take the value: the send completes
\* only into a reply channel whose receiver is alive.
ActorSend_waits_for_receiver ==
  /\ actorPc = "send"
  /\ replies[inHand[1].id].rx_alive
  /\ Len(replies[inHand[1].id].buffer) < ReplyCapacity
  /\ LET id == inHand[1].id
         chan == replies[id]
     IN replies' = [replies EXCEPT ![id] =
                      [buffer |-> << inHand[1].res >>,
                       tx_alive |-> FALSE,
                       rx_alive |-> chan.rx_alive]]
  /\ inHand' = << >>
  /\ actorPc' = "recv"
  /\ UNCHANGED << simulation, channel, senders, pc, callId, result, calls,
                  accepted, applied, last >>

\* `reply.send(res).await;` completes: the value enters the reply channel
\* when its receiver is alive and a slot is free, and the send fails at once
\* (the error is discarded) when the receiver is gone; with the receiver
\* alive and the buffer full the loop stays suspended.  The arm then ends,
\* dropping the reply sender, and the loop awaits the next request.
ActorSend ==
  /\ actorPc = "send"
  /\ \/ ~replies[inHand[1].id].rx_alive
     \/ Len(replies[inHand[1].id].buffer) < ReplyCapacity
  /\ LET id == inHand[1].id
         chan == replies[id]
     IN replies' = [replies EXCEPT ![id] =
                      [buffer |-> IF chan.rx_alive THEN << inHand[1].res >> ELSE << >>,
                       tx_alive |-> FALSE,
                       rx_alive |-> chan.rx_alive]]
  /\ inHand' = << >>
  /\ actorPc' = "recv"
  /\ UNCHANGED << simulation, channel, senders, pc, callId, result, calls,
                  accepted, applied, last >>

\* The task running Handle::run is dropped at one of its two await points
\* (the runtime shuts down or the task is cancelled).
Shutdown ==
  /\ actorPc \in {"recv", "send"}
  /\ HandleDropped
  /\ UNCHANGED << simulation, pc, callId, result, calls, accepted, applied, last >>

\* ------------------------------------------------------------ specifications

\* The actor running, two callers submitting operations concurrently.
Next ==
  \/ \E c \in Callers, o \in CallOps : Len(calls) < MaxCalls /\ Call(c, o)
  \/ \E c \in Callers : ClientSend(c)
  \/ \E c \in Callers : ClientRecv(c)
  \/ ActorRecv
  \/ ActorSend

Spec == Init /\ [][Next]_vars

\* The operations callers submit in SpecQueue: one that succeeds and changes
\* the ledger, one that fails with Decode, and one that fails with
\* OutOfBounds until the first has succeeded.
QueueOps ==
  { OpCreateExecutionEnvironment(TextA),
    OpCreateExecutionEnvironment(TextMalformed),
    OpGetExecutionEnvironment(0) }

\* The actor running and two callers, over longer runs of fewer operations.
NextQueue ==
  \/ \E c \in Callers, o \in QueueOps : Len(calls) < MaxQueueCalls /\ Call(c, o)
  \/ \E c \in Callers : ClientSend(c)
  \/ \E c \in Callers : ClientRecv(c)
  \/ ActorRecv
  \/ ActorSend

SpecQueue == Init /\ [][NextQueue]_vars

\* The running actor and two callers that may abandon a call awaiting its
\* reply.  The runtime polls every task that can make progress.
NextAbandon ==
  \/ \E c \in Callers, o \in QueueOps : Len(calls) < MaxAbandonCalls /\ Call(c, o)
  \/ \E c \in Callers : ClientSend(c)
  \/ \E c \in Callers : ClientRecv(c)
  \/ \E c \in Callers : Abandon(c)
  \/ ActorRecv
  \/ ActorSend

FairSpecAbandon ==
  /\ Init
  /\ [][NextAbandon]_vars
  /\ \A c \in Callers : WF_vars(ClientSend(c)) /\ WF_vars(ClientRecv(c))
  /\ WF_vars(ActorRecv)
  /\ WF_vars(ActorSend)

\* The same with the actor's task being dropped and callers dropping their
\* senders.  The runtime polls every task that can make progress: a client
\* call whose send or recv can complete does complete, as does the loop.
NextShutdown ==
  \/ \E c \in Callers, o \in ShutdownOps :
       Len(calls) < MaxShutdownCalls /\ Call(c, o)
  \/ \E c \in Callers : ClientSend(c)
  \/ \E c \in Callers : ClientRecv(c)
  \/ \E c \in Callers : ClientDrop(c)
  \/ ActorRecv
  \/ ActorSend
  \/ Shutdown

FairSpec ==
  /\ Init
  /\ [][NextShutdown]_vars
  /\ \A c \in Callers : WF_vars(ClientSend(c)) /\ WF_vars(ClientRecv(c))
  /\ WF_vars(ActorRecv)
  /\ WF_vars(ActorSend)

\* The ledger called directly, as the unit tests call it, over richer
\* arguments: which text decodes, which index is in range.
LedgerTexts == { TextA, TextAUnpadded, TextHi, TextMalformed, TextNonAlphabet }

LedgerBlocks ==
  { Block(<< Transaction(TextAUnpadded, 0), Transaction(TextHi, 7) >>),
    Block(<< Transaction(TextMalformed, 0) >>),
    Block(<< Transaction(TextA, 0), Transaction(TextNonAlphabet, 1) >>),
    Block(<< Transaction(TextMalformed, 1), Transaction(TextA, 0) >>),
    Block(<< Transaction(TextA, 0), Transaction(TextMalformed, 0),
             Transaction(TextHi, 0) >>) }

LedgerOps ==
  { OpCreateExecutionEnvironment(t) : t \in LedgerTexts }
    \cup { OpGetExecutionEnvironment(i) : i \in 0..MaxEEs }
    \cup { OpCreateShardChain, OpGetSimulationState }
    \cup { OpCreateShardBlock(s, b) : s \in 0..MaxChains, b \in LedgerBlocks }
    \cup { OpGetShardBlock(s, b) : s \in 0..MaxChains, b \in 0..MaxBlocks }

\* The caps that keep the ledger of SpecLedger finite: a call is made when
\* the ledger it leaves is within them.
WithinCaps(sim) ==
  /\ Len(sim.beacon_chain.execution_environments) <= MaxEEs
  /\ Len(sim.shard_chains) <= MaxChains
  /\ \A s \in 1..Len(sim.shard_chains) :
       Len(sim.shard_chains[s].shard_blocks) <= MaxBlocks

\* One ledger method called on the Simulation, as in `eth.create_shard_chain(..)`.
LedgerCall(o) ==
  LET r == run_match(simulation, o)
  IN /\ simulation' = r.sim
     /\ last' = [op |-> o, before |-> simulation, res |-> r.res]
     /\ UNCHANGED << channel, senders, actorPc, inHand, replies, pc, callId,
                     result, calls, accepted, applied >>

NextLedger ==
  \E o \in LedgerOps : WithinCaps(run_match(simulation, o).sim) /\ LedgerCall(o)

SpecLedger == Init /\ [][NextLedger]_vars

\* The ledger called directly with every call logged, to follow a value from
\* the call that stores it to the call that fetches it.  The registered
\* texts are the encodings of all byte strings of up to MaxLen bytes over
\* two byte values of complementary bits (0x61 and 0x9E).
ByteValues == {97, 158}

ByteStrings == UNION { [1..n -> ByteValues] : n \in 0..MaxLen }

RoundTripBlocks ==
  { Block(<< >>),
    Block(<< Transaction(TextA, 1) >>),
    Block(<< Transaction(TextAUnpadded, 0), Transaction(TextHi, 7) >>) }

RoundTripOps ==
  { OpCreateExecutionEnvironment(Base64Encode(b)) : b \in ByteStrings }
    \cup { OpGetExecutionEnvironment(i) : i \in 0..1 }
    \cup { OpCreateShardChain }
    \cup { OpCreateShardBlock(0, b) : b \in RoundTripBlocks }
    \cup { OpGetShardBlock(0, b) : b \in 0..1 }

LoggedCall(o) ==
  LET r == run_match(simulation, o)
  IN /\ Len(calls) < MaxCalls
     /\ simulation' = r.sim
     /\ last' = [op |-> o, before |-> simulation, res |-> r.res]
     /\ calls' = Append(calls, [caller |-> 0, op |-> o, terminated |-> FALSE])
     /\ applied' = Append(applied, [id |-> Len(calls) + 1, res |-> r.res])
     /\ UNCHANGED << channel, senders, actorPc, inHand, replies, pc, callId,
                     result, accepted >>

NextRoundTrip == \E o \in RoundTripOps : LoggedCall(o)

SpecRoundTrip == Init /\ [][NextRoundTrip]_vars

\* Longer logged runs of direct calls: registrations, shard chains, appends
\* to the first two shard chains (well-formed and malformed) and reads.
LogOps ==
  { OpCreateExecutionEnvironment(TextA),
    OpCreateExecutionEnvironment(TextMalformed),
    OpCreateShardChain,
    OpCreateShardBlock(0, Block(<< Transaction(TextA, 0) >>)),
    OpCreateShardBlock(1, Block(<< Transaction(TextHi, 1) >>)),
    OpCreateShardBlock(0, Block(<< Transaction(TextMalformed, 0) >>)),
    OpGetShardBlock(0, 0),
    OpGetSimulationState }

LogCall(o) ==
  LET r == run_match(simulation, o)
  IN /\ Len(calls) < MaxLogCalls
     /\ simulation' = r.sim
     /\ last' = [op |-> o, before |-> simulation, res |-> r.res]
     /\ calls' = Append(calls, [caller |-> 0, op |-> o, terminated |-> FALSE])
     /\ applied' = Append(applied, [id |-> Len(calls) + 1, res |-> r.res])
     /\ UNCHANGED << channel, senders, actorPc, inHand, replies, pc, callId,
                     result, accepted >>

NextLog == \E o \in LogOps : LogCall(o)

SpecLog == Init /\ [][NextLog]_vars


\* ------------------------------------------------------------------ claims

\* The operation that the j-th applied request carried.
AppliedOp(j) == calls[applied[j].id].op

\* The j-th applied request is a registration that succeeded.
Registered(j) ==
  /\ AppliedOp(j).kind = "CreateExecutionEnvironment"
  /\ applied[j].res.tag = "Ok"

\* The position in `applied` of the call with this id, 0 when not applied.
AppliedAt(id) ==
  IF \E j \in 1..Len(applied) : applied[j].id = id
  THEN CHOOSE j \in 1..Len(applied) : applied[j].id = id
  ELSE 0

\* Caller c's last call has returned a reply (not Terminated).
Returned(c) == pc[c] = "idle" /\ callId[c] # 0 /\ result[c].tag = "Ok"

\* C1: requests are applied in the order the queue accepted them, and the
\* k-th registration that succeeds in that order returns index k - 1, to the
\* actor's log and to the caller; a registration failing with Decode takes
\* no index.
C1_RegistrationIndicesSequential ==
  /\ \A j \in 1..Len(applied) :
       /\ accepted[j] = applied[j].id
       /\ Registered(j) =>
            applied[j].res.val.u32 = Cardinality({ i \in 1..(j - 1) : Registered(i) })
  /\ \A c \in Callers :
       (Returned(c) /\ calls[callId[c]].op.kind = "CreateExecutionEnvironment"
          /\ result[c].val.tag = "Ok") =>
         result[c].val.val.u32 =
           Cardinality({ i \in 1..(AppliedAt(callId[c]) - 1) : Registered(i) })

\* Two registrations by different callers succeeded around one that failed
\* with Decode, and the second caller has its index.
C1_Witness ==
  /\ Len(applied) >= 3
  /\ Registered(1) /\ Registered(3)
  /\ AppliedOp(2).kind = "CreateExecutionEnvironment"
  /\ applied[2].res.tag = "Decode"
  /\ calls[applied[1].id].caller # calls[applied[3].id].caller
  /\ \E c \in Callers : Returned(c) /\ callId[c] = applied[3].id

RECURSIVE SequentialRun(_)
\* One Ledger and the results it returned after the first n applied
\* operations, run one after the other from Simulation::new().
SequentialRun(n) ==
  IF n = 0 THEN [sim |-> SimulationNew, results |-> << >>]
  ELSE LET prev == SequentialRun(n - 1)
           r == run_match(prev.sim, AppliedOp(n))
       IN [sim |-> r.sim, results |-> Append(prev.results, r.res)]

\* C2: the ledger is the one obtained by running the dequeued operations
\* one after the other on a fresh Ledger, and every reply, as computed and
\* as received by its caller, is that sequential run's result.
C2_Linearizable ==
  LET run == SequentialRun(Len(applied))
  IN /\ simulation = run.sim
     /\ \A j \in 1..Len(applied) : applied[j].res = run.results[j]
     /\ \A c \in Callers :
          Returned(c) =>
            /\ AppliedAt(callId[c]) # 0
            /\ result[c].val = run.results[AppliedAt(callId[c])]

\* Two callers' requests were applied and both changed the ledger, the
\* second is still in hand while a third request waits in the queue.
C2_Witness ==
  /\ channel.buffer # << >> /\ inHand # << >>
  /\ Len(applied) >= 2
  /\ calls[applied[1].id].caller # calls[applied[2].id].caller
  /\ SequentialRun(1).sim # SimulationNew
  /\ SequentialRun(2).sim # SequentialRun(1).sim

\* The ids that the request channel accepted (applied or not).
AcceptedIds == { accepted[j] : j \in 1..Len(accepted) }

\* C3: a call made through a client handle after the actor has terminated
\* completes, and completes with Terminated.
C3_CallAfterTerminationFails ==
  \A c \in Callers :
    (actorPc = "dropped" /\ pc[c] = "send" /\ calls[callId[c]].terminated)
      ~> (pc[c] = "idle" /\ result[c] = ErrTerminated)

\* A call entered after the actor was dropped has returned Terminated.
C3_Witness ==
  /\ actorPc = "dropped"
  /\ \E c \in Callers :
       /\ pc[c] = "idle" /\ callId[c] # 0
       /\ calls[callId[c]].terminated
       /\ result[c] = ErrTerminated

\* C4: a call in flight when the actor stops (its request was accepted by
\* the queue and no reply has been sent) completes with Terminated.
C4_InFlightCallFails ==
  \A c \in Callers :
    (actorPc = "dropped" /\ pc[c] = "recv" /\ callId[c] \in AcceptedIds
       /\ replies[callId[c]].buffer = << >>)
      ~> (pc[c] = "idle" /\ result[c] = ErrTerminated)

\* Two calls were in flight when the actor was dropped, one applied and
\* awaiting its reply, one still queued, and both returned Terminated.
C4_Witness ==
  /\ actorPc = "dropped"
  /\ \E c, d \in Callers :
       /\ pc[c] = "idle" /\ result[c] = ErrTerminated
       /\ pc[d] = "idle" /\ result[d] = ErrTerminated
       /\ AppliedAt(callId[c]) # 0
       /\ callId[d] \in AcceptedIds /\ AppliedAt(callId[d]) = 0

\* Some transaction payload of the block does not decode.
HasMalformed(block) ==
  \E i \in 1..Len(block.transactions) :
    ~Base64Decode(block.transactions[i].base64_encoded_data).ok

\* C5: a registration whose payload does not decode, and an append to an
\* existing shard of a block with a payload that does not decode, return
\* Decode; and whenever either returns Decode the whole ledger is as before.
C5_DecodeLeavesLedgerUnchanged ==
  /\ (last.op.kind = "CreateExecutionEnvironment"
        /\ ~Base64Decode(last.op.args.execution_environment.base64_encoded_wasm_code).ok)
       => last.res.tag = "Decode"
  /\ (last.op.kind = "CreateShardBlock"
        /\ last.op.args.shard_chain_index < Len(last.before.shard_chains)
        /\ HasMalformed(last.op.args.shard_block))
       => last.res.tag = "Decode"
  /\ (last.op.kind \in {"CreateExecutionEnvironment", "CreateShardBlock"}
        /\ last.res.tag = "Decode")
       => simulation = last.before

\* An append to a shard that already holds a block, the second of three
\* payloads malformed and the others well-formed, returned Decode.
C5_Witness ==
  /\ last.op.kind = "CreateShardBlock"
  /\ last.res.tag = "Decode"
  /\ last.op.args.shard_chain_index < Len(last.before.shard_chains)
  /\ Len(last.before.shard_chains[last.op.args.shard_chain_index + 1].shard_blocks) >= 1
  /\ Len(last.before.beacon_chain.execution_environments) >= 1
  /\ LET txs == last.op.args.shard_block.transactions
     IN /\ Len(txs) = 3
        /\ Base64Decode(txs[1].base64_encoded_data).ok
        /\ ~Base64Decode(txs[2].base64_encoded_data).ok
        /\ Base64Decode(txs[3].base64_encoded_data).ok

\* C6: an append naming a shard chain that does not exist returns
\* OutOfBounds, whatever the block holds, and leaves the ledger as before.
C6_AppendToMissingShardFails ==
  (last.op.kind = "CreateShardBlock"
     /\ last.op.args.shard_chain_index >= Len(last.before.shard_chains))
    => /\ last.res.tag = "OutOfBounds"
       /\ simulation = last.before

\* An append of a block with a malformed payload named a missing shard,
\* next to a shard chain that holds a block, and returned OutOfBounds.
C6_Witness ==
  /\ last.op.kind = "CreateShardBlock"
  /\ last.op.args.shard_chain_index >= Len(last.before.shard_chains)
  /\ HasMalformed(last.op.args.shard_block)
  /\ \E s \in 1..Len(last.before.shard_chains) :
       Len(last.before.shard_chains[s].shard_blocks) >= 1
  /\ last.res.tag = "OutOfBounds"

\* C7: get_execution_environment(i) returns OutOfBounds exactly when i is at
\* least the registry length, and otherwise the environment at position i
\* (its text decodes to the code stored there).
C7_GetExecutionEnvironmentBounds ==
  last.op.kind = "GetExecutionEnvironment" =>
    LET ees == simulation.beacon_chain.execution_environments
        i == last.op.args.execution_environment_index
    IN /\ (last.res.tag = "OutOfBounds") <=> (i >= Len(ees))
       /\ i < Len(ees) =>
            /\ last.res.tag = "Ok"
            /\ Base64Decode(last.res.val.base64_encoded_wasm_code) =
                 [ok |-> TRUE, bytes |-> ees[i + 1].wasm_code]
       /\ simulation = last.before

\* The last of two registered environments, different from the first, was
\* fetched.
C7_Witness ==
  /\ last.op.kind = "GetExecutionEnvironment"
  /\ Len(simulation.beacon_chain.execution_environments) >= 2
  /\ last.op.args.execution_environment_index =
       Len(simulation.beacon_chain.execution_environments) - 1
  /\ simulation.beacon_chain.execution_environments[1] #
       simulation.beacon_chain.execution_environments[2]
  /\ last.res.tag = "Ok"

\* The j-th applied request is a snapshot, the k-th a fetch of an environment.
SnapshotAt(j) == AppliedOp(j).kind = "GetSimulationState"
FetchAt(k) == AppliedOp(k).kind = "GetExecutionEnvironment"

\* The fetch applied k-th agrees with the count the snapshot applied j-th
\* reported: OutOfBounds from that count on, a success below it.
FetchAgrees(j, k) ==
  LET count == applied[j].res.num_execution_environments
      i == AppliedOp(k).args.execution_environment_index
  IN /\ i >= count => applied[k].res.tag = "OutOfBounds"
     /\ i < count => applied[k].res.tag = "Ok"

\* Callers c and d are both awaiting replies, to a snapshot and to a fetch
\* that the actor has applied: the two calls overlap.
ConcurrentSnapshotAndFetch(c, d) ==
  /\ c # d
  /\ pc[c] = "recv" /\ pc[d] = "recv"
  /\ AppliedAt(callId[c]) # 0 /\ AppliedAt(callId[d]) # 0
  /\ SnapshotAt(AppliedAt(callId[c]))
  /\ FetchAt(AppliedAt(callId[d]))

\* C8 as stated: a fetch concurrent with a snapshot agrees with the count
\* that the snapshot reports, whatever else is registered meanwhile.
C8_Original ==
  \A c, d \in Callers :
    ConcurrentSnapshotAndFetch(c, d) =>
      FetchAgrees(AppliedAt(callId[c]), AppliedAt(callId[d]))

\* C8 amended: for a snapshot reporting count c and a fetch of index i, the
\* fetch fails for i >= c when it is dequeued before the snapshot, succeeds
\* for i < c when it is dequeued after it, and does both when no
\* registration succeeds between the two.
C8_FetchAgreesWithSnapshotInOrder ==
  \A j, k \in 1..Len(applied) :
    (SnapshotAt(j) /\ FetchAt(k)) =>
      LET count == applied[j].res.num_execution_environments
          i == AppliedOp(k).args.execution_environment_index
      IN /\ (k < j /\ i >= count) => applied[k].res.tag = "OutOfBounds"
         /\ (k > j /\ i < count) => applied[k].res.tag = "Ok"
         /\ (\A m \in 1..Len(applied) :
               ((j < m /\ m < k) \/ (k < m /\ m < j)) => ~Registered(m))
              => FetchAgrees(j, k)

\* A snapshot that reported a registered environment and a fetch dequeued
\* after it are both awaiting their replies, and the fetch succeeded.
C8_Witness ==
  \E c, d \in Callers :
    /\ ConcurrentSnapshotAndFetch(c, d)
    /\ AppliedAt(callId[c]) < AppliedAt(callId[d])
    /\ applied[AppliedAt(callId[c])].res.num_execution_environments >= 1
    /\ applied[AppliedAt(callId[d])].res.tag = "Ok"

\* C9: an environment registered as the text encoding of a byte string and
\* fetched at the index the registration returned comes back as that text.
C9_ExecutionEnvironmentRoundTrip ==
  \A j, k \in 1..Len(applied) :
    (j < k /\ Registered(j) /\ FetchAt(k)
       /\ AppliedOp(k).args.execution_environment_index = applied[j].res.val.u32)
      => /\ \E b \in ByteStrings :
              AppliedOp(j).args.execution_environment.base64_encoded_wasm_code =
                Base64Encode(b)
         /\ applied[k].res = Ok(AppliedOp(j).args.execution_environment)

\* Two different byte strings, the second of two bytes, were registered and
\* the second was fetched.
C9_Witness ==
  /\ Len(applied) >= 3
  /\ Registered(1) /\ Registered(2)
  /\ AppliedOp(2).args.execution_environment =
       [base64_encoded_wasm_code |-> Base64Encode(<< 158, 97 >>)]
  /\ AppliedOp(1) # AppliedOp(2)
  /\ FetchAt(3)
  /\ AppliedOp(3).args.execution_environment_index = applied[2].res.val.u32
  /\ applied[3].res.tag = "Ok"

\* The j-th logged call appended a block, and the k-th fetched the block at
\* the index that append returned, on the same shard.
AppendThenFetch(j, k) ==
  /\ j < k
  /\ AppliedOp(j).kind = "CreateShardBlock"
  /\ applied[j].res.tag = "Ok"
  /\ AppliedOp(k).kind = "GetShardBlock"
  /\ AppliedOp(k).args.shard_chain_index = AppliedOp(j).args.shard_chain_index
  /\ AppliedOp(k).args.shard_block_index = applied[j].res.val.u32

\* C10: a block appended and fetched at the returned index comes back with
\* as many transactions, in the same order, each with the ee_index and the
\* data (the bytes its text stands for) that were submitted.
C10_ShardBlockRoundTrip ==
  \A j, k \in 1..Len(applied) :
    AppendThenFetch(j, k) =>
      /\ applied[k].res.tag = "Ok"
      /\ LET sent == AppliedOp(j).args.shard_block.transactions
             got == applied[k].res.val.transactions
         IN /\ Len(got) = Len(sent)
            /\ \A i \in 1..Len(sent) :
                 /\ got[i].ee_index = sent[i].ee_index
                 /\ Base64Decode(got[i].base64_encoded_data).ok
                 /\ Base64Decode(got[i].base64_encoded_data) =
                      Base64Decode(sent[i].base64_encoded_data)

\* A block of two transactions with different data and ee_index was
\* appended to a shard chain and fetched.
C10_Witness ==
  \E j, k \in 1..Len(applied) :
    /\ AppendThenFetch(j, k)
    /\ applied[k].res.tag = "Ok"
    /\ Len(applied[k].res.val.transactions) = 2
    /\ applied[k].res.val.transactions[1] # applied[k].res.val.transactions[2]
    /\ applied[k].res.val.transactions[2].ee_index = 7

\* The j-th logged call is an append to shard s, and it succeeded.
Appended(j, s) ==
  /\ AppliedOp(j).kind = "CreateShardBlock"
  /\ AppliedOp(j).args.shard_chain_index = s
  /\ applied[j].res.tag = "Ok"

\* The j-th logged call is an append to shard s that failed.
AppendFailed(j, s) ==
  /\ AppliedOp(j).kind = "CreateShardBlock"
  /\ AppliedOp(j).args.shard_chain_index = s
  /\ applied[j].res.tag # "Ok"

\* C11: the k-th append that succeeds on a shard returns k - 1: the index
\* returned is the number of appends that succeeded on that shard before,
\* whatever was appended to other shards and whichever appends failed.
C11_BlockIndicesLocalToShard ==
  \A j \in 1..Len(applied) :
    AppliedOp(j).kind = "CreateShardBlock" /\ applied[j].res.tag = "Ok" =>
      applied[j].res.val.u32 =
        Cardinality({ i \in 1..(j - 1) :
                        Appended(i, AppliedOp(j).args.shard_chain_index) })

\* The first append to succeed on shard 0 returned 0 after an append to
\* shard 0 failed and an append to shard 1 succeeded.
C11_Witness ==
  \E j \in 1..Len(applied) :
    /\ Appended(j, 0)
    /\ applied[j].res.val.u32 = 0
    /\ \E i \in 1..(j - 1) : AppendFailed(i, 0)
    /\ \E i \in 1..(j - 1) : Appended(i, 1)

\* C12: create_shard_chain returns an index, never an error: the number of
\* shard chains before the call; and after the call the list of shard
\* chains is the one before with a chain of no blocks appended.
C12_CreateShardChainAppendsEmpty ==
  last.op.kind = "CreateShardChain" =>
    /\ last.res = U32(Len(last.before.shard_chains))
    /\ Len(simulation.shard_chains) = Len(last.before.shard_chains) + 1
    /\ SubSeq(simulation.shard_chains, 1, Len(last.before.shard_chains)) =
         last.before.shard_chains
    /\ simulation.shard_chains[Len(simulation.shard_chains)].shard_blocks = << >>

\* A second shard chain was created, returning 1, next to a first one that
\* holds a block and with an environment registered.
C12_Witness ==
  /\ last.op.kind = "CreateShardChain"
  /\ last.res = U32(1)
  /\ Len(last.before.shard_chains) = 1
  /\ last.before.shard_chains[1].shard_blocks # << >>
  /\ last.before.beacon_chain.execution_environments # << >>

\* C13: get_shard_block(s, b) returns OutOfBounds exactly when s is at
\* least the number of shard chains or b at least the number of blocks of
\* shard s, and the block at (s, b) otherwise; the error names the shard
\* chain as missing whenever s is out of range, whatever b is, and the block
\* only when s is in range.
C13_GetShardBlockBounds ==
  last.op.kind = "GetShardBlock" =>
    LET chains == simulation.shard_chains
        s == last.op.args.shard_chain_index
        b == last.op.args.shard_block_index
    IN /\ s >= Len(chains) =>
            last.res = ErrOutOfBounds("no shard chain exists at index")
       /\ (s < Len(chains) /\ b >= Len(chains[s + 1].shard_blocks)) =>
            last.res =
              ErrOutOfBounds("the shard chain does not contain a block at index")
       /\ (s < Len(chains) /\ b < Len(chains[s + 1].shard_blocks)) =>
            last.res = Ok(FromShardBlock(chains[s + 1].shard_blocks[b + 1]))

\* A fetch named a block index past the end of an existing shard chain while
\* another shard chain holds a block at that index, and the error names the
\* block.
C13_Witness ==
  /\ last.op.kind = "GetShardBlock"
  /\ last.op.args.shard_chain_index < Len(simulation.shard_chains)
  /\ last.op.args.shard_block_index >=
       Len(simulation.shard_chains[last.op.args.shard_chain_index + 1].shard_blocks)
  /\ \E t \in 1..Len(simulation.shard_chains) :
       last.op.args.shard_block_index < Len(simulation.shard_chains[t].shard_blocks)
  /\ last.res = ErrOutOfBounds("the shard chain does not contain a block at index")

\* The counts a snapshot taken after the first n logged calls must report:
\* the registrations that succeeded and the create_shard_chain calls.
CountsAfter(n) ==
  [num_execution_environments |-> Cardinality({ i \in 1..n : Registered(i) }),
   num_shard_chains |->
     Cardinality({ i \in 1..n : AppliedOp(i).kind = "CreateShardChain" })]

\* C14: every snapshot returns the two counts, never an error: the number of
\* registrations that succeeded and the number of create_shard_chain calls
\* made before it; failed calls, appends, reads and snapshots count for
\* neither.  The ledger's own collections have those lengths as well.
C14_SnapshotCounts ==
  /\ \A j \in 1..Len(applied) :
       AppliedOp(j).kind = "GetSimulationState" =>
         applied[j].res = CountsAfter(j - 1)
  /\ Len(simulation.beacon_chain.execution_environments) =
       CountsAfter(Len(applied)).num_execution_environments
  /\ Len(simulation.shard_chains) = CountsAfter(Len(applied)).num_shard_chains

\* A snapshot reported {1, 1} after one registration, one shard chain, a
\* block appended to it and a call that failed.
C14_Witness ==
  /\ \E j \in 2..Len(applied) :
       /\ AppliedOp(j).kind = "GetSimulationState"
       /\ applied[j].res = [num_execution_environments |-> 1, num_shard_chains |-> 1]
       /\ \E i \in 1..(j - 1) : Appended(i, 0)
       /\ \E i \in 1..(j - 1) : "tag" \in DOMAIN applied[i].res /\ applied[i].res.tag # "Ok"

\* Sequence a is a prefix of sequence b.
IsPrefix(a, b) == Len(a) <= Len(b) /\ SubSeq(b, 1, Len(a)) = a

\* Ledger `before` is carried over into ledger `after`: the registry is a
\* prefix of the registry, every shard chain is still there at its index
\* and its blocks are a prefix of its blocks.
CarriedOver(before, after) ==
  /\ IsPrefix(before.beacon_chain.execution_environments,
              after.beacon_chain.execution_environments)
  /\ Len(before.shard_chains) <= Len(after.shard_chains)
  /\ \A s \in 1..Len(before.shard_chains) :
       IsPrefix(before.shard_chains[s].shard_blocks,
                after.shard_chains[s].shard_blocks)

C16_BoundedQueueKeepsOrder ==
  /\ Len(channel.buffer) <= RequestCapacity
  /\ \A c \in Callers :
       /\ pc[c] = "send" => callId[c] \notin AcceptedIds
       /\ (pc[c] \in {"recv", "idle"} /\ callId[c] # 0) => callId[c] \in AcceptedIds
  /\ \A i, j \in 1..Len(accepted) : accepted[i] = accepted[j] => i = j
  /\ Len(accepted) = Len(applied) + Len(channel.buffer)
  /\ \A j \in 1..Len(accepted) :
       accepted[j] = IF j <= Len(applied) THEN applied[j].id
                     ELSE channel.buffer[j - Len(applied)]

\* The queue is full with one caller's request, and the other caller, whose
\* earlier call was served, is suspended at its send.
C16_Witness ==
  /\ Len(channel.buffer) = RequestCapacity
  /\ \E c \in Callers :
       /\ pc[c] = "send"
       /\ \E j \in 1..Len(applied) : calls[applied[j].id].caller = c

\* Every caller has dropped its sender and no request is queued or in hand.
ClientSendersGone ==
  /\ senders \cap Callers = {}
  /\ channel.buffer = << >>
  /\ inHand = << >>

\* C17: once every client-side sender is gone and the queued requests are
\* drained, the run loop eventually stops.  The loop's own Handle still owns
\* a sender of the queue, so recv() never yields None and the loop waits.
C17_LoopStopsWhenSendersGone == ClientSendersGone ~> actorPc = "dropped"

\* C18: every call has a reply channel of its own; the actor applies a
\* request once and sends one value, the result of applying it, into the
\* channel that request carries; so a reply channel never holds anything
\* but its own request's result, a call that returns returns that result,
\* and nothing is left in its channel afterwards.
C18_ReplyRouting ==
  /\ \A c, d \in Callers : (c # d /\ callId[c] # 0) => callId[c] # callId[d]
  /\ \A i, j \in 1..Len(applied) : applied[i].id = applied[j].id => i = j
  /\ \A id \in 1..Len(replies) :
       replies[id].buffer # << >> =>
         /\ \E j \in 1..Len(applied) :
              applied[j].id = id /\ replies[id].buffer = << applied[j].res >>
         /\ ~replies[id].tx_alive
  /\ \A c \in Callers :
       (pc[c] = "idle" /\ callId[c] # 0) =>
         /\ \E j \in 1..Len(applied) :
              applied[j].id = callId[c] /\ result[c] = Ok(applied[j].res)
         /\ replies[callId[c]].buffer = << >>

\* Two overlapping calls got different results: the one applied second has
\* returned its own while the reply to the one applied first is still in
\* its channel.
C18_Witness ==
  \E c, d \in Callers :
    /\ pc[c] = "recv" /\ replies[callId[c]].buffer # << >>
    /\ pc[d] = "idle" /\ callId[d] # 0
    /\ AppliedAt(callId[c]) # 0
    /\ AppliedAt(callId[c]) < AppliedAt(callId[d])
    /\ applied[AppliedAt(callId[c])].res # applied[AppliedAt(callId[d])].res
    /\ result[d] = Ok(applied[AppliedAt(callId[d])].res)

\* The j-th applied request failed with Decode or OutOfBounds.
Failed(j) ==
  /\ "tag" \in DOMAIN applied[j].res
  /\ applied[j].res.tag \in {"Decode", "OutOfBounds"}

RECURSIVE RunWithoutFailed(_)
\* The first n applied operations run one after the other on a fresh ledger
\* with the failed ones left out: the ledger it ends in, and whether every
\* operation run returned what the actor returned for it.
RunWithoutFailed(n) ==
  IF n = 0 THEN [sim |-> SimulationNew, same |-> TRUE]
  ELSE LET prev == RunWithoutFailed(n - 1)
       IN IF Failed(n) THEN prev
          ELSE LET r == run_match(prev.sim, AppliedOp(n))
               IN [sim |-> r.sim, same |-> prev.same /\ r.res = applied[n].res]

\* C19: a request that fails with Decode or OutOfBounds does not stop the
\* actor, its caller gets the error as the value of the call, and the
\* ledger and the result of every other request are those of the run in
\* which the failed requests were never submitted.
C19_ErrorsNotFatal ==
  LET run == RunWithoutFailed(Len(applied))
  IN /\ actorPc # "dropped"
     /\ simulation = run.sim
     /\ run.same
     /\ \A c \in Callers :
          (pc[c] = "idle" /\ callId[c] # 0) =>
            /\ result[c].tag = "Ok"
            /\ \A j \in 1..Len(applied) :
                 (applied[j].id = callId[c] /\ Failed(j)) =>
                   result[c].val.tag \in {"Decode", "OutOfBounds"}

\* A fetch failed with OutOfBounds and its caller got the error; the actor
\* went on to register an environment and then served the same fetch.
C19_Witness ==
  /\ Len(applied) >= 3
  /\ Failed(1) /\ applied[1].res.tag = "OutOfBounds"
  /\ Registered(2)
  /\ AppliedOp(3) = AppliedOp(1) /\ applied[3].res.tag = "Ok"
  /\ actorPc = "recv"
  /\ \E c \in Callers :
       /\ pc[c] = "idle" /\ callId[c] = applied[1].id
       /\ result[c] = Ok(applied[1].res)

\* C20: an append to an existing shard of a block whose payloads all decode
\* succeeds whatever the ee_index values are, and the block is stored at the
\* returned index with every transaction's ee_index as submitted, also when
\* it is at least the number of registered environments.
C20_EeIndexNotValidated ==
  (last.op.kind = "CreateShardBlock"
     /\ last.op.args.shard_chain_index < Len(last.before.shard_chains)
     /\ ~HasMalformed(last.op.args.shard_block))
    => /\ last.res.tag = "Ok"
       /\ LET blocks ==
                simulation.shard_chains[last.op.args.shard_chain_index + 1].shard_blocks
              sent == last.op.args.shard_block.transactions
          IN /\ last.res.val.u32 = Len(blocks) - 1
             /\ Len(blocks[Len(blocks)].transactions) = Len(sent)
             /\ \A i \in 1..Len(sent) :
                  blocks[Len(blocks)].transactions[i].ee_index = sent[i].ee_index

\* A block was appended on an empty registry, and the ledger holds a
\* transaction whose ee_index names no registered environment.
C20_Witness ==
  /\ last.op.kind = "CreateShardBlock"
  /\ last.res.tag = "Ok"
  /\ simulation.beacon_chain.execution_environments = << >>
  /\ \E s \in 1..Len(simulation.shard_chains) :
       \E b \in 1..Len(simulation.shard_chains[s].shard_blocks) :
         \E i \in 1..Len(simulation.shard_chains[s].shard_blocks[b].transactions) :
           simulation.shard_chains[s].shard_blocks[b].transactions[i].ee_index >=
             Len(simulation.beacon_chain.execution_environments)

\* C21: an append to shard s that succeeds changes the ledger in one place:
\* shard s has one more block, after the blocks it had; the registry, the
\* number of shard chains, every other shard chain and the state map of
\* shard s are as before.
C21_AppendFrame ==
  (last.op.kind = "CreateShardBlock" /\ last.res.tag = "Ok") =>
    LET s == last.op.args.shard_chain_index + 1
        old == last.before.shard_chains
        new == simulation.shard_chains
    IN /\ simulation.beacon_chain = last.before.beacon_chain
       /\ Len(new) = Len(old)
       /\ \A t \in 1..Len(old) : t # s => new[t] = old[t]
       /\ new[s].execution_environment_state = old[s].execution_environment_state
       /\ Len(new[s].shard_blocks) = Len(old[s].shard_blocks) + 1
       /\ SubSeq(new[s].shard_blocks, 1, Len(old[s].shard_blocks)) =
            old[s].shard_blocks

\* A second block was appended to a shard chain while another shard chain
\* holds a block of different content.
C21_Witness ==
  /\ last.op.kind = "CreateShardBlock" /\ last.res.tag = "Ok"
  /\ last.res.val.u32 = 1
  /\ \E t \in 1..Len(simulation.shard_chains) :
       /\ t # last.op.args.shard_chain_index + 1
       /\ simulation.shard_chains[t].shard_blocks # << >>
       /\ simulation.shard_chains[t].shard_blocks[1] #
            simulation.shard_chains[last.op.args.shard_chain_index + 1].shard_blocks[1]

\* The three operations that read the ledger.
ReadKinds == {"GetExecutionEnvironment", "GetShardBlock", "GetSimulationState"}

\* C22: a read, whether it returns a value or OutOfBounds, leaves the whole
\* ledger as it was, and the same read made again on the ledger it left
\* returns the same result and again leaves the ledger as it was.
C22_ReadsLeaveLedgerUnchanged ==
  last.op.kind \in ReadKinds =>
    /\ simulation = last.before
    /\ run_match(simulation, last.op) = [sim |-> simulation, res |-> last.res]

\* A block was fetched from a ledger that holds an environment and two
\* shard chains, and everything is still there.
C22_Witness ==
  /\ last.op.kind = "GetShardBlock"
  /\ last.res.tag = "Ok"
  /\ simulation.beacon_chain.execution_environments # << >>
  /\ Len(simulation.shard_chains) >= 2
  /\ simulation.shard_chains[last.op.args.shard_chain_index + 1].shard_blocks # << >>

\* The call with this id has been applied by the actor.
IsApplied(id) == \E j \in 1..Len(applied) : applied[j].id = id

\* Caller c's call has ended: abandoned, or returned the result of applying
\* its own request.
EndedWithOwnResult(c) ==
  /\ pc[c] = "idle"
  /\ (callId[c] # 0 /\ result[c] # NoResult) =>
       \E j \in 1..Len(applied) :
         applied[j].id = callId[c] /\ result[c] = Ok(applied[j].res)

\* Nothing is pending: the actor is back at its recv, every request the
\* queue accepted has been applied, and every call has ended.
NothingPending ==
  /\ actorPc = "recv"
  /\ \A id \in AcceptedIds : IsApplied(id)
  /\ \A c \in Callers : EndedWithOwnResult(c)

\* C23: with the actor running and its loop scheduled fairly, whatever
\* calls are made and whichever of them are abandoned (their reply receivers
\* dropped), the run settles with nothing pending: the actor is never left
\* at a reply send, every request the queue accepted is applied, and every
\* caller that awaited its reply has the result of its own request.
C23_NoCallerBlocksActor == <>[]NothingPending

\* A caller abandoned its call before the actor replied to it; the actor
\* went on, and the other caller's request, applied later, returned its
\* result.
C23_Witness ==
  \E c, d \in Callers :
    /\ c # d
    /\ pc[c] = "idle" /\ callId[c] # 0 /\ result[c] = NoResult
    /\ ~replies[callId[c]].tx_alive
    /\ pc[d] = "idle" /\ callId[d] # 0
    /\ \E j, k \in 1..Len(applied) :
         /\ j < k
         /\ applied[j].id = callId[c]
         /\ applied[k].id = callId[d]
         /\ result[d] = Ok(applied[k].res)

=============================================================================
